---- MODULE Spec2Model ----
(***************************************************************************)
(* BabyBear field chip, quartic extension chip, Poseidon2 permutation chip *)
(* and the cgo test entry points of sp1-playground, as one state machine.  *)
(* `call` names the entry point a behaviour executes; every entry point    *)
(* has its own program counter and its own variables.                      *)
(***************************************************************************)
EXTENDS Integers, Sequences, FiniteSets, TLC

VARIABLES
    call,                 \* the entry point this behaviour executes
    sat,                  \* TRUE while the emitted constraints are satisfiable
    \* Poseidon2BabyBearChip / TestPoseidonBabyBear2
    input,                \* the state PermuteMut was called with
    state,                \* *[BABYBEAR_WIDTH]babybear.Variable, mutated in place
    RC16,                 \* round constant table
    internalLinearLayer,  \* Poseidon2BabyBearChip.internalLinearLayer
    r,                    \* loop variable of PermuteMut
    pcP,                  \* position inside PermuteMut / the test circuit
    rounds,               \* the layers and rounds PermuteMut has run, in order
    \* babybear.Chip: field and extension operations
    opA, opB, cond,       \* operands of a field operation
    extA, extB,           \* operands of an extension operation
    ret,                  \* returned BabyBear values (limb values, base 2^16 digits)
    extRet,               \* returned extension value
    pcF,                  \* "call" before the operation, "ret" after it
    splitIn,              \* native-field argument of SplitIntoBabyBear
    bits,                 \* SplitIntoBabyBear: api.ToBinary(in)
    xyzp,                 \* SplitIntoBabyBear: the locals <<x, y, z, power>>
    splitI,               \* SplitIntoBabyBear: the loop variable
    \* generated Circuit.Define
    X, Y, felt0, felt1, felt2, i, pcD,
    \* TestPlonkBn254 / TestMain
    testMutex,            \* 0 when unlocked, else the invocation holding it
    env,                  \* process environment: WITNESS_JSON, CONSTRAINTS_JSON
    pc,                   \* position of every invocation
    fileName,             \* TestMain's local fileName, per invocation
    err,                  \* TestMain's result, per invocation
    arg                   \* witnessPath and constraintsJson, per invocation

vars == <<call, sat, input, state, RC16, internalLinearLayer, r, pcP, rounds,
          opA, opB, cond, extA, extB, ret, extRet, pcF, splitIn, bits, xyzp,
          splitI,
          X, Y, felt0, felt1, felt2, i, pcD,
          testMutex, env, pc, fileName, err, arg>>

poseidonVars == <<input, state, RC16, internalLinearLayer, r, pcP, rounds>>
chipVars     == <<opA, opB, cond, extA, extB, ret, extRet, pcF, splitIn,
                  bits, xyzp, splitI>>
defineVars   == <<X, Y, felt0, felt1, felt2, i, pcD>>
plonkVars    == <<testMutex, env, pc, fileName, err, arg>>

----------------------------------------------------------------------------
(* BabyBear field arithmetic.  Every intermediate value stays below 2^31. *)

MODULUS == 2013265921

Canonical == 0 .. (MODULUS - 1)

\* a + b mod p for canonical a, b
AddMod(a, b) == IF a >= MODULUS - b THEN a - (MODULUS - b) ELSE a + b

\* a - b mod p for canonical a, b
SubMod(a, b) == IF a >= b THEN a - b ELSE MODULUS - (b - a)

\* -a mod p for canonical a
NegMod(a) == IF a = 0 THEN 0 ELSE MODULUS - a

\* 16 a mod p for canonical a.  With a = ah 2^27 + al and 2^31 = 2^27 - 1
\* mod p, 16 a = ah (2^27 - 1) + 16 al.
Shl4(a) ==
    AddMod(((a \div 134217728) * 134217727) % MODULUS,
           ((a % 134217728) * 16) % MODULUS)

\* a * d mod p for canonical a and a digit d < 16.  With a = ah 2^27 + al
\* and 15 * 2^27 = -1 mod p, (ah d) 2^27 = (ah d % 15) 2^27 - (ah d \div 15).
MulDigit(a, d) ==
    SubMod(AddMod(((a % 134217728) * d) % MODULUS,
                  ((((a \div 134217728) * d) % 15) * 134217728) % MODULUS),
           ((a \div 134217728) * d) \div 15)

\* a * (the low n hexadecimal digits of b) mod p
RECURSIVE MulHorner(_, _, _)
MulHorner(a, b, n) ==
    IF n = 0 THEN 0
    ELSE AddMod(Shl4(MulHorner(a, b \div 16, n - 1)), MulDigit(a, b % 16))

\* a * b mod p for canonical a, b
MulMod(a, b) == IF a = 0 \/ b = 0 THEN 0 ELSE MulHorner(a, b, 8)

\* a^e mod p for e < 2^31: square and multiply, from bit 30 of e down
PowMod(a, e) ==
    LET pw[k \in 0 .. 31] ==
            IF k = 0 THEN 1
            ELSE LET h == pw[k - 1]
                     s == MulMod(h, h)
                 IN  IF h = 0 THEN 0
                     ELSE IF (e \div (2 ^ (31 - k))) % 2 = 1 THEN MulMod(s, a)
                     ELSE s
    IN  pw[31]

----------------------------------------------------------------------------
(* Poseidon2 over BabyBear *)

BABYBEAR_WIDTH == 16
BABYBEAR_NUM_EXTERNAL_ROUNDS == 8
BABYBEAR_NUM_INTERNAL_ROUNDS == 13
BABYBEAR_DEGREE == 7

Width == 1 .. BABYBEAR_WIDTH

\* fieldApi.AddF, fieldApi.MulF, fieldApi.MulFConst of the sp1/babybear package
AddF(a, b) == AddMod(a, b)
MulF(a, b) == MulMod(a, b)
MulFConst(a, k) == MulMod(a, k)

\* The internal diagonal as a bug would build it: 2^14 in the last place.
InternalDiagPow2 ==
    <<2013265919, 1, 2, 4, 8, 16, 32, 64, 128, 256, 512, 1024, 2048, 4096,
      8192, 16384>>

\* the internalLinearLayer literal of NewPoseidon2BabyBearChip
NewPoseidon2BabyBearChip ==
    <<2013265919, 1, 2, 4, 8, 16, 32, 64, 128, 256, 512, 1024, 2048, 4096,
      8192, 32768>>

addRc(s, rc) == [k \in Width |-> AddF(s[k], rc[k])]

sboxP(x) ==
    LET squared == MulF(x, x)
        input4  == MulF(squared, squared)
        input6  == MulF(squared, input4)
    IN  MulF(input6, x)

sbox(s) == [k \in Width |-> sboxP(s[k])]

\* One 4-element block updated in index order 0, 1, 2, 3: the last
\* assignment reads element 0 after it was overwritten.
mdsLightPermutation4x4IndexOrder(s) ==
    LET t01    == AddF(s[1], s[2])
        t23    == AddF(s[3], s[4])
        t0123  == AddF(t01, t23)
        t01123 == AddF(t0123, s[2])
        t01233 == AddF(t0123, s[4])
        s1 == [s  EXCEPT ![1] = AddF(t01123, t01)]
        s2 == [s1 EXCEPT ![2] = AddF(t01123, MulFConst(s1[3], 2))]
        s3 == [s2 EXCEPT ![3] = AddF(t01233, t23)]
        s4 == [s3 EXCEPT ![4] = AddF(t01233, MulFConst(s3[1], 2))]
    IN  s4

\* One 4-element block, s a sequence of 4; the four assignments in the
\* order of the code, each reading the block as the previous one left it.
mdsLightPermutation4x4(s) ==
    LET t01    == AddF(s[1], s[2])
        t23    == AddF(s[3], s[4])
        t0123  == AddF(t01, t23)
        t01123 == AddF(t0123, s[2])
        t01233 == AddF(t0123, s[4])
        s1 == [s  EXCEPT ![4] = AddF(t01233, MulFConst(s[1], 2))]
        s2 == [s1 EXCEPT ![2] = AddF(t01123, MulFConst(s1[3], 2))]
        s3 == [s2 EXCEPT ![1] = AddF(t01123, t01)]
        s4 == [s3 EXCEPT ![3] = AddF(t01233, t23)]
    IN  s4

externalLinearLayer(s) ==
    LET blk(b) == mdsLightPermutation4x4(SubSeq(s, 4 * b + 1, 4 * b + 4))
        m == blk(0) \o blk(1) \o blk(2) \o blk(3)
        sums == [k \in 1 .. 4 |->
                    AddF(AddF(AddF(m[k], m[k + 4]), m[k + 8]), m[k + 12])]
    IN  [k \in Width |-> AddF(m[k], sums[((k - 1) % 4) + 1])]

RECURSIVE SumF(_, _)
SumF(s, n) == IF n = 0 THEN 0 ELSE AddF(SumF(s, n - 1), s[n])

diffusionPermuteMut(s, diag) ==
    LET sum == SumF(s, BABYBEAR_WIDTH)
    IN  [k \in Width |-> AddF(MulF(s[k], diag[k]), sum)]

----------------------------------------------------------------------------
(* The round constant table RC16 and the conformance fixture *)

MaxRCSeed == 2

NumRounds == BABYBEAR_NUM_EXTERNAL_ROUNDS + BABYBEAR_NUM_INTERNAL_ROUNDS

\* RC16 is static data: one 16-wide row of field constants per round.
RCTable(seed) ==
    [rr \in 0 .. (NumRounds - 1) |->
        [k \in Width |-> (seed * (BABYBEAR_WIDTH * rr + k)) % MODULUS]]

RCTables == {RCTable(seed) : seed \in 0 .. MaxRCSeed}

\* `input` of TestPoseidonBabyBear2
FixtureInput ==
    <<894848333, 1437655012, 1200606629, 1690012884, 71131202, 1749206695,
      1717947831, 120589055, 19776022, 42382981, 1831865506, 724844064,
      171220207, 1299207443, 227047920, 1783754913>>

\* `expected_output` of TestPoseidonBabyBear2
ExpectedOutput ==
    <<512585766, 975869435, 1921378527, 1238606951, 899635794, 132650430,
      1426417547, 1734425242, 57415409, 67173027, 1535042492, 1318033394,
      1070659233, 17258943, 856719028, 1500534995>>

Zero16 == [k \in Width |-> 0]

\* states PermuteMut is called with outside the fixture
PermInputs ==
    {Zero16, [k \in Width |-> k], [k \in Width |-> MODULUS - k],
     [Zero16 EXCEPT ![1] = 1], [Zero16 EXCEPT ![16] = MODULUS - 1]}

PoseidonCalls == {"PermuteMut", "TestPoseidonBabyBear2"}

PoseidonInit ==
    /\ internalLinearLayer = NewPoseidon2BabyBearChip
    /\ r = 0
    /\ rounds = <<>>
    /\ IF call \in PoseidonCalls
       THEN /\ RC16 \in RCTables
            /\ input \in (IF call = "PermuteMut" THEN PermInputs
                          ELSE {FixtureInput})
            /\ pcP = "initial"
       ELSE /\ RC16 = RCTable(0)
            /\ input = Zero16
            /\ pcP = "off"
    /\ state = input

\* PermuteMut, line 267: the initial linear layer
PermuteInitialLayer ==
    /\ call \in PoseidonCalls
    /\ pcP = "initial"
    /\ state' = externalLinearLayer(state)
    /\ rounds' = Append(rounds, "initial")
    /\ r' = 0
    /\ pcP' = "firstHalf"
    /\ UNCHANGED <<call, sat, input, RC16, internalLinearLayer>>
    /\ UNCHANGED <<chipVars, defineVars, plonkVars>>

\* PermuteMut, lines 271-279: one iteration of the loop over the first
\* half of the external rounds, with its `if r == 0 { break }`.  Nothing
\* follows the loop: the internal rounds and the second half are comments.
PermuteFirstHalfRound ==
    /\ call \in PoseidonCalls
    /\ pcP = "firstHalf"
    /\ r < BABYBEAR_NUM_EXTERNAL_ROUNDS \div 2
    /\ state' = externalLinearLayer(sbox(addRc(state, RC16[r])))
    /\ rounds' = Append(rounds, "external")
    /\ IF r = 0 \/ r + 1 >= BABYBEAR_NUM_EXTERNAL_ROUNDS \div 2
       THEN /\ pcP' = "done"
            /\ r' = r
       ELSE /\ pcP' = "firstHalf"
            /\ r' = r + 1
    /\ UNCHANGED <<call, sat, input, RC16, internalLinearLayer>>
    /\ UNCHANGED <<chipVars, defineVars, plonkVars>>

\* The test circuit: the permuted state is asserted equal to
\* expected_output, element by element.
TestPoseidonAssert ==
    /\ call = "TestPoseidonBabyBear2"
    /\ pcP = "done"
    /\ sat' = (sat /\ state = ExpectedOutput)
    /\ pcP' = "checked"
    /\ UNCHANGED <<call, input, state, RC16, internalLinearLayer, r, rounds>>
    /\ UNCHANGED <<chipVars, defineVars, plonkVars>>

----------------------------------------------------------------------------
(* Native-field values.  A native value is written in base 2^16, least     *)
(* significant digit first, so that no intermediate number exceeds 2^31.   *)
(* The values the chip computes stay far below the native modulus, so the  *)
(* native operations below never wrap.                                     *)

NativeBits == 254

Base == 2 ^ 16
NativeDigits == (NativeBits \div 16) + 1

Digits == 1 .. NativeDigits

BigZero == [k \in Digits |-> 0]

\* the native value of a number below 2^31
BigOf(n) == [k \in Digits |-> IF k = 1 THEN n % Base
                              ELSE IF k = 2 THEN n \div Base ELSE 0]

\* the native value with the given low digits
BigFrom(ds) == [k \in Digits |-> IF k <= Len(ds) THEN ds[k] ELSE 0]

\* api.Add: digit by digit, c[k] the carry out of digit k
BigAdd(a, b) ==
    LET c[k \in 0 .. NativeDigits] ==
            IF k = 0 THEN 0 ELSE (a[k] + b[k] + c[k - 1]) \div Base
    IN  [k \in Digits |-> (a[k] + b[k] + c[k - 1]) % Base]

\* api.Mul by a bit or by the constant 2
BigMulSmall(a, m) ==
    LET c[k \in 0 .. NativeDigits] ==
            IF k = 0 THEN 0 ELSE (a[k] * m + c[k - 1]) \div Base
    IN  [k \in Digits |-> (a[k] * m + c[k - 1]) % Base]

\* a * 2^(16 d)
BigShift(a, d) == [k \in Digits |-> IF k <= d THEN 0 ELSE a[k - d]]

RECURSIVE BigLessFrom(_, _, _)
BigLessFrom(a, b, k) ==
    IF k = 0 THEN FALSE
    ELSE IF a[k] # b[k] THEN a[k] < b[k]
    ELSE BigLessFrom(a, b, k - 1)

BigLess(a, b) == BigLessFrom(a, b, NativeDigits)

\* api.ToBinary: the bits of a native value, bit 0 first
ToBinary(a) ==
    [b \in 0 .. (NativeBits - 1) |-> (a[(b \div 16) + 1] \div (2 ^ (b % 16))) % 2]

\* field.NewElement on a native variable: the variable becomes the single
\* 32-bit limb of the element, unreduced.
NewElement(v) == v

\* NewElement's width check of its limb
FitsLimb(v) == \A k \in Digits : k > 2 => v[k] = 0

----------------------------------------------------------------------------
(* babybear.Chip: the field operations.  The emulated field returns the    *)
(* residue of the exact result.                                            *)

Add(a, b) == AddMod(a, b)
Sub(a, b) == SubMod(a, b)
Mul(a, b) == MulMod(a, b)
Neg(a) == NegMod(a)

\* field.Inverse: a^(p-2); for a = 0 no inverse exists and the constraint
\* a * inv = 1 cannot be met (InvSat).
Inv(a) == PowMod(a, MODULUS - 2)
InvSat(a) == a # 0

Select(c, a, b) == IF c = 1 THEN a ELSE b

\* field.IsZero: 1 when the element is 0 mod p
IsZero(a) == IF a % MODULUS = 0 THEN 1 ELSE 0

\* api.And on booleans
And(x, y) == x * y

----------------------------------------------------------------------------
(* babybear.Chip: the quartic extension.  An extension value is a tuple of *)
(* four coefficients; value[k] of the code is position k + 1.              *)

ExtZero == <<0, 0, 0, 0>>
ExtOne == <<1, 0, 0, 0>>

\* MulExtension, lines 130-138: the double loop, step n = 4 i + j.  The
\* products are taken from v, the accumulator, as the code takes them.
RECURSIVE MulExtensionLoop(_, _, _, _)
MulExtensionLoop(a, b, v, n) ==
    IF n = 16 THEN v
    ELSE LET ii == n \div 4
             jj == n % 4
             w == 11
             next ==
                IF ii + jj >= 4
                THEN [v EXCEPT ![ii + jj - 3] =
                        Add(v[ii + jj - 3], Mul(Mul(v[ii + 1], v[jj + 1]), w))]
                ELSE [v EXCEPT ![ii + jj + 1] =
                        Add(v[ii + jj + 1], Mul(v[ii + 1], v[jj + 1]))]
         IN  MulExtensionLoop(a, b, next, n + 1)

MulExtension(a, b) == MulExtensionLoop(a, b, ExtZero, 0)

InvExtension(a) == ExtZero

\* AssertNeExtension, as a bug would write it: any equal coefficient rejects.
AssertNeExtensionAny(a, b) ==
    LET isZero(k) == IsZero(Sub(a[k], b[k]))
    IN  isZero(1) + isZero(2) + isZero(3) + isZero(4) = 0

\* TRUE when the constraint AssertNeExtension emits is satisfied
AssertNeExtension(a, b) ==
    LET v1 == Sub(a[1], b[1])
        v2 == Sub(a[2], b[2])
        v3 == Sub(a[3], b[3])
        v4 == Sub(a[4], b[4])
        isZero1AndZero2 == And(IsZero(v1), IsZero(v2))
        isZero3AndZero4 == And(IsZero(v3), IsZero(v4))
        isZeroAll == And(isZero1AndZero2, isZero3AndZero4)
    IN  isZeroAll = 0

----------------------------------------------------------------------------
(* babybear.Chip.SplitIntoBabyBear *)

\* lines 199-202: one iteration of the loop, acc = <<x, y, z, power>>
SplitLoopBody(bs, n, acc) ==
    <<BigAdd(acc[1], BigMulSmall(acc[4], bs[n])),
      BigAdd(acc[2], BigMulSmall(acc[4], bs[n + 32])),
      BigAdd(acc[3], BigMulSmall(acc[4], bs[n + 64])),
      BigMulSmall(acc[4], 2)>>

----------------------------------------------------------------------------
(* Calls into babybear.Chip *)

FieldCalls == {"Add", "Sub", "Mul", "Neg", "Inv", "Select"}
ExtCalls == {"MulExtension", "InvExtension", "AssertNeExtension"}
ChipCalls == FieldCalls \cup ExtCalls \cup {"SplitIntoBabyBear"}

FieldSamples == {0, 1, 2, 1006632961, MODULUS - 1}

CoefSamples == {0, 1, MODULUS - 1}

ExtSamples == {<<c0, c1, c2, c3>> : c0 \in CoefSamples, c1 \in CoefSamples,
                                    c2 \in CoefSamples, c3 \in CoefSamples}

\* 0, 1, p - 1, p, 2^31 - 1, 2^32 - 1, 2^32, a 96-bit value, 2^96 - 1,
\* 2^96, 2^96 + 2^64 + 7, and a value with bit 253 set
SplitInputs ==
    {BigFrom(<<>>), BigFrom(<<1>>), BigOf(MODULUS - 1), BigOf(MODULUS),
     BigOf(2147483647), BigFrom(<<65535, 65535>>), BigFrom(<<0, 0, 1>>),
     BigFrom(<<1, 2, 3, 4, 5, 6>>),
     BigFrom(<<65535, 65535, 65535, 65535, 65535, 65535>>),
     BigFrom(<<0, 0, 0, 0, 0, 0, 1>>), BigFrom(<<7, 0, 0, 0, 1, 0, 1>>),
     [BigFrom(<<9, 8>>) EXCEPT ![NativeDigits] = 8192]}

ChipInit ==
    /\ pcF = IF call \in ChipCalls THEN "call" ELSE "off"
    /\ opA \in (IF call \in FieldCalls THEN FieldSamples ELSE {0})
    /\ opB \in (IF call \in {"Add", "Sub", "Mul", "Select"}
                THEN FieldSamples ELSE {0})
    /\ cond \in (IF call = "Select" THEN {0, 1} ELSE {0})
    /\ extA \in (IF call \in ExtCalls THEN ExtSamples ELSE {ExtZero})
    /\ extB \in (IF call \in {"MulExtension", "AssertNeExtension"}
                 THEN ExtSamples ELSE {ExtZero})
    /\ splitIn \in (IF call = "SplitIntoBabyBear" THEN SplitInputs
                    ELSE {BigZero})
    /\ bits = <<>>
    /\ xyzp = <<>>
    /\ splitI = 0
    /\ ret = <<>>
    /\ extRet = ExtZero

\* a field operation returns one value and may emit a constraint
FieldReturn(v, ok) ==
    /\ pcF = "call"
    /\ ret' = <<BigOf(v)>>
    /\ sat' = (sat /\ ok)
    /\ pcF' = "ret"
    /\ UNCHANGED <<call, opA, opB, cond, extA, extB, extRet, splitIn, bits,
                   xyzp, splitI>>
    /\ UNCHANGED <<poseidonVars, defineVars, plonkVars>>

CallAdd == call = "Add" /\ FieldReturn(Add(opA, opB), TRUE)
CallSub == call = "Sub" /\ FieldReturn(Sub(opA, opB), TRUE)
CallMul == call = "Mul" /\ FieldReturn(Mul(opA, opB), TRUE)
CallNeg == call = "Neg" /\ FieldReturn(Neg(opA), TRUE)
CallInv == call = "Inv" /\ FieldReturn(Inv(opA), InvSat(opA))
CallSelect == call = "Select" /\ FieldReturn(Select(cond, opA, opB), TRUE)

ExtReturn(v, ok) ==
    /\ pcF = "call"
    /\ extRet' = v
    /\ sat' = (sat /\ ok)
    /\ pcF' = "ret"
    /\ UNCHANGED <<call, opA, opB, cond, extA, extB, ret, splitIn, bits, xyzp,
                   splitI>>
    /\ UNCHANGED <<poseidonVars, defineVars, plonkVars>>

CallMulExtension ==
    call = "MulExtension" /\ ExtReturn(MulExtension(extA, extB), TRUE)

CallInvExtension ==
    call = "InvExtension" /\ ExtReturn(InvExtension(extA), TRUE)

CallAssertNeExtension ==
    call = "AssertNeExtension"
        /\ ExtReturn(extRet, AssertNeExtension(extA, extB))

\* lines 192-196: the bit decomposition and the initial locals
SplitToBinary ==
    /\ call = "SplitIntoBabyBear"
    /\ pcF = "call"
    /\ bits' = ToBinary(splitIn)
    /\ xyzp' = <<BigZero, BigZero, BigZero, BigOf(1)>>
    /\ splitI' = 0
    /\ pcF' = "loop"
    /\ UNCHANGED <<call, sat, opA, opB, cond, extA, extB, ret, extRet, splitIn>>
    /\ UNCHANGED <<poseidonVars, defineVars, plonkVars>>

\* lines 198-203: one iteration
SplitLoop ==
    /\ call = "SplitIntoBabyBear"
    /\ pcF = "loop"
    /\ splitI < 32
    /\ xyzp' = SplitLoopBody(bits, splitI, xyzp)
    /\ splitI' = splitI + 1
    /\ UNCHANGED <<call, sat, opA, opB, cond, extA, extB, ret, extRet, splitIn,
                   bits, pcF>>
    /\ UNCHANGED <<poseidonVars, defineVars, plonkVars>>

\* lines 205-209: the three elements; NewElement checks each limb's width
SplitReturn ==
    /\ call = "SplitIntoBabyBear"
    /\ pcF = "loop"
    /\ splitI >= 32
    /\ ret' = <<NewElement(xyzp[1]), NewElement(xyzp[2]), NewElement(xyzp[3])>>
    /\ sat' = (sat /\ \A k \in 1 .. 3 : FitsLimb(xyzp[k]))
    /\ pcF' = "ret"
    /\ UNCHANGED <<call, opA, opB, cond, extA, extB, extRet, splitIn, bits,
                   xyzp, splitI>>
    /\ UNCHANGED <<poseidonVars, defineVars, plonkVars>>

----------------------------------------------------------------------------
(* The generated Circuit.Define, run by TestCircuit *)

MaxXY == 1

LoopCount == 12

DefineInit ==
    /\ X \in (IF call = "TestCircuit" THEN 0 .. MaxXY ELSE {0})
    /\ Y \in (IF call = "TestCircuit" THEN 0 .. MaxXY ELSE {0})
    /\ felt0 = 0
    /\ felt1 = 0
    /\ felt2 = 0
    /\ i = 0
    /\ pcD = IF call = "TestCircuit" THEN "start" ELSE "off"

\* lines 26-28: var0 = 0, felt0 = NewVariable(0), felt1 = NewVariable(1)
DefineStart ==
    /\ call = "TestCircuit"
    /\ pcD = "start"
    /\ felt0' = 0
    /\ felt1' = 1
    /\ i' = 0
    /\ pcD' = "loop"
    /\ UNCHANGED <<call, sat, X, Y, felt2>>
    /\ UNCHANGED <<poseidonVars, chipVars, plonkVars>>

\* felt0 after the three statements of one loop iteration, as a bug that
\* forgets the copy through felt2 would compute it
LoopFelt0NoCopy(f0, f1) == Add(Add(f0, f1), 0)

\* the three statements of the loop body, lines 30-32
LoopFelt2(f0, f1) == Add(f1, 0)
LoopFelt1(f0, f1) == Add(f0, f1)
LoopFelt0(f0, f1) == Add(LoopFelt2(f0, f1), 0)

DefineLoop ==
    /\ call = "TestCircuit"
    /\ pcD = "loop"
    /\ i < LoopCount
    /\ felt2' = LoopFelt2(felt0, felt1)
    /\ felt1' = LoopFelt1(felt0, felt1)
    /\ felt0' = LoopFelt0(felt0, felt1)
    /\ i' = i + 1
    /\ UNCHANGED <<call, sat, X, Y, pcD>>
    /\ UNCHANGED <<poseidonVars, chipVars, plonkVars>>

\* line 34: fieldChip.AssertEq(felt0, NewVariable(144))
DefineAssertEq ==
    /\ call = "TestCircuit"
    /\ pcD = "loop"
    /\ i >= LoopCount
    /\ sat' = (sat /\ felt0 % MODULUS = 144 % MODULUS)
    /\ pcD' = "asserted"
    /\ UNCHANGED <<call, X, Y, felt0, felt1, felt2, i>>
    /\ UNCHANGED <<poseidonVars, chipVars, plonkVars>>

\* lines 35-40: the two selects under backend0 and the two under backend1
DefineSelects ==
    /\ call = "TestCircuit"
    /\ pcD = "asserted"
    /\ LET var0 == 0
           backend0 == IF var0 - var0 = 0 THEN 1 ELSE 0
           a == Select(backend0, Add(felt1, 0), felt0)
           b == Select(backend0, Add(a, felt1), a)
           backend1 == 1 - (IF var0 - var0 = 0 THEN 1 ELSE 0)
           c == Select(backend1, Add(felt1, 0), b)
           d == Select(backend1, Add(c, felt1), c)
       IN  felt0' = d
    /\ pcD' = "done"
    /\ UNCHANGED <<call, sat, X, Y, felt1, felt2, i>>
    /\ UNCHANGED <<poseidonVars, chipVars, plonkVars>>

----------------------------------------------------------------------------
(* TestPlonkBn254 and TestMain: concurrent invocations from the C side *)

NumInvocations == 2

Invocations == 1 .. NumInvocations

WitnessPaths == {"", "a.json", "b.json"}
ConstraintsJsons == {"c.json"}

NoArg == [witnessPath |-> "", constraintsJson |-> ""]

PlonkInit ==
    /\ testMutex = 0
    /\ env = [WITNESS_JSON |-> "", CONSTRAINTS_JSON |-> ""]
    /\ pc = [t \in Invocations |->
                IF call = "TestPlonkBn254" THEN "idle" ELSE "off"]
    /\ fileName = [t \in Invocations |-> ""]
    /\ err = [t \in Invocations |-> "none"]
    /\ arg = [t \in Invocations |-> NoArg]

PlonkStep(t, from, to) ==
    /\ call = "TestPlonkBn254"
    /\ pc[t] = from
    /\ pc' = [pc EXCEPT ![t] = to]
    /\ UNCHANGED <<call, sat>>
    /\ UNCHANGED <<poseidonVars, chipVars, defineVars>>

\* the C caller enters TestPlonkBn254(witnessPath, constraintsJson)
Invoke(t) ==
    /\ PlonkStep(t, "idle", "lock")
    /\ \E w \in WitnessPaths, c \in ConstraintsJsons :
          arg' = [arg EXCEPT ![t] = [witnessPath |-> w, constraintsJson |-> c]]
    /\ UNCHANGED <<testMutex, env, fileName, err>>

\* testMutex.Lock() that does not wait for the holder
LockNoWait(t) ==
    /\ PlonkStep(t, "lock", "setWitness")
    /\ testMutex' = t
    /\ UNCHANGED <<env, fileName, err, arg>>

\* line 78: testMutex.Lock()
Lock(t) ==
    /\ PlonkStep(t, "lock", "setWitness")
    /\ testMutex = 0
    /\ testMutex' = t
    /\ UNCHANGED <<env, fileName, err, arg>>

\* line 81: os.Setenv("WITNESS_JSON", witnessPathString)
SetenvWitness(t) ==
    /\ PlonkStep(t, "setWitness", "setConstraints")
    /\ env' = [env EXCEPT !.WITNESS_JSON = arg[t].witnessPath]
    /\ UNCHANGED <<testMutex, fileName, err, arg>>

\* line 82: os.Setenv("CONSTRAINTS_JSON", constraintsJsonString)
SetenvConstraints(t) ==
    /\ PlonkStep(t, "setConstraints", "testMain")
    /\ env' = [env EXCEPT !.CONSTRAINTS_JSON = arg[t].constraintsJson]
    /\ UNCHANGED <<testMutex, fileName, err, arg>>

\* TestMain, lines 93-96: fileName from the environment, or the default
TestMainGetenv(t) ==
    /\ PlonkStep(t, "testMain", "prove")
    /\ fileName' = [fileName EXCEPT ![t] =
                       IF env.WITNESS_JSON = "" THEN "witness.json"
                       ELSE env.WITNESS_JSON]
    /\ UNCHANGED <<testMutex, env, err, arg>>

\* TestMain, lines 99-144: read, compile, set up, prove; any step may fail
TestMainReturn(t) ==
    /\ PlonkStep(t, "prove", "unlock")
    /\ \E e \in {"nil", "error"} : err' = [err EXCEPT ![t] = e]
    /\ UNCHANGED <<testMutex, env, fileName, arg>>

\* line 84: testMutex.Unlock()
Unlock(t) ==
    /\ PlonkStep(t, "unlock", "return")
    /\ testMutex' = 0
    /\ UNCHANGED <<env, fileName, err, arg>>

\* lines 85-88: the error string, or nil, goes back to the caller
Return(t) ==
    /\ PlonkStep(t, "return", "returned")
    /\ UNCHANGED <<testMutex, env, fileName, err, arg>>

----------------------------------------------------------------------------

Calls == PoseidonCalls \cup ChipCalls \cup {"TestCircuit", "TestPlonkBn254"}

Init ==
    /\ call \in Calls
    /\ sat = TRUE
    /\ PoseidonInit
    /\ ChipInit
    /\ DefineInit
    /\ PlonkInit

Next ==
    \/ PermuteInitialLayer
    \/ PermuteFirstHalfRound
    \/ TestPoseidonAssert
    \/ CallAdd
    \/ CallSub
    \/ CallMul
    \/ CallNeg
    \/ CallInv
    \/ CallSelect
    \/ CallMulExtension
    \/ CallInvExtension
    \/ CallAssertNeExtension
    \/ SplitToBinary
    \/ SplitLoop
    \/ SplitReturn
    \/ DefineStart
    \/ DefineLoop
    \/ DefineAssertEq
    \/ DefineSelects
    \/ \E t \in Invocations :
          \/ Invoke(t)
          \/ Lock(t)
          \/ SetenvWitness(t)
          \/ SetenvConstraints(t)
          \/ TestMainGetenv(t)
          \/ TestMainReturn(t)
          \/ Unlock(t)
          \/ Return(t)

Spec == Init /\ [][Next]_vars

\* Every invocation runs on a thread of its own and keeps running; Go's
\* sync.Mutex hands the lock to a waiter that has waited long enough
\* (starvation mode), so a waiter is not passed over forever.
Fairness ==
    \A t \in Invocations :
        /\ WF_vars(SetenvWitness(t) \/ SetenvConstraints(t)
                     \/ TestMainGetenv(t) \/ TestMainReturn(t)
                     \/ Unlock(t) \/ Return(t))
        /\ SF_vars(Lock(t))

LiveSpec == Init /\ [][Next]_vars /\ Fairness

----------------------------------------------------------------------------
(* Properties *)

Times(n, x) == [k \in 1 .. n |-> x]

\* the round sequence of the full permutation
FullRoundSequence ==
    <<"initial">>
        \o Times(BABYBEAR_NUM_EXTERNAL_ROUNDS \div 2, "external")
        \o Times(BABYBEAR_NUM_INTERNAL_ROUNDS, "internal")
        \o Times(BABYBEAR_NUM_EXTERNAL_ROUNDS \div 2, "external")

\* C1: when PermuteMut returns it has run, in order, the initial layer,
\* 4 external rounds, 13 internal rounds and 4 more external rounds.
C1_AllRoundsRun ==
    pcP \in {"done", "checked"} => rounds = FullRoundSequence

\* the product in BabyBear[x]/(x^4 - 11): a_i b_j goes to coefficient i + j,
\* times 11 to coefficient i + j - 4 when i + j >= 4
ExtTerm(a, b, ii, jj) ==
    IF ii + jj >= 4 THEN MulMod(MulMod(a[ii + 1], b[jj + 1]), 11)
    ELSE MulMod(a[ii + 1], b[jj + 1])

ExtCoef(a, b, n) ==
    AddMod(AddMod(AddMod(ExtTerm(a, b, 0, n % 4),
                         ExtTerm(a, b, 1, (n + 3) % 4)),
                  ExtTerm(a, b, 2, (n + 2) % 4)),
           ExtTerm(a, b, 3, (n + 1) % 4))

ExtProduct(a, b) ==
    <<ExtCoef(a, b, 0), ExtCoef(a, b, 1), ExtCoef(a, b, 2), ExtCoef(a, b, 3)>>

\* C2: MulExtension(a, b) returns the product of a and b reduced with
\* x^4 = 11; in particular MulExtension(a, (1,0,0,0)) = a.
C2_MulExtensionIsProduct ==
    (call = "MulExtension" /\ pcF = "ret") =>
        /\ extRet = ExtProduct(extA, extB)
        /\ (extB = ExtOne => extRet = extA)

\* C3: for nonzero a, InvExtension(a) is the inverse of a:
\* MulExtension(a, InvExtension(a)) = (1,0,0,0).
C3_InvExtensionInverts ==
    (call = "InvExtension" /\ pcF = "ret" /\ extA # ExtZero) =>
        /\ MulExtension(extA, extRet) = ExtOne
        /\ ExtProduct(extA, extRet) = ExtOne

\* C4: PermuteMut maps the fixture's input to the fixture's expected
\* output, so the assertions of the TestPoseidonBabyBear2 circuit hold.
C4_FixtureOutput ==
    (call = "TestPoseidonBabyBear2" /\ pcP = "checked") =>
        (state = ExpectedOutput /\ sat)

\* c0 + c1 2^32 + c2 2^64
Recompose(c) == BigAdd(BigAdd(c[1], BigShift(c[2], 2)), BigShift(c[3], 4))

\* C5: whenever SplitIntoBabyBear's constraints are satisfied, its three
\* chunks are below 2^32 and c0 + c1 2^32 + c2 2^64 is the input exactly.
C5_SplitRecomposes ==
    (call = "SplitIntoBabyBear" /\ pcF = "ret" /\ sat) =>
        /\ \A n \in 1 .. 3 : FitsLimb(ret[n])
        /\ Recompose(ret) = splitIn

\* C6: every value a field operation or SplitIntoBabyBear returns under
\* satisfied constraints is a canonical residue, below p.
C6_ReturnsCanonical ==
    (call \in FieldCalls \cup {"SplitIntoBabyBear"} /\ pcF = "ret" /\ sat) =>
        \A n \in DOMAIN ret : BigLess(ret[n], BigOf(MODULUS))

\* C7: AssertNeExtension(a, b) makes the system unsatisfiable exactly when
\* all four coefficient differences are zero mod p.
C7_AssertNeRejectsOnlyEqual ==
    (call = "AssertNeExtension" /\ pcF = "ret") =>
        (~sat <=> \A n \in 1 .. 4 : extA[n] % MODULUS = extB[n] % MODULUS)

\* C7 witness: an assertion of two values that differ in one coefficient
\* only has been laid down and is satisfied.
C7_Witness ==
    /\ call = "AssertNeExtension"
    /\ pcF = "ret"
    /\ sat
    /\ Cardinality({n \in 1 .. 4 : extA[n] # extB[n]}) = 1

\* C8 as stated: entry 0 is p - 2 and entry i is 2^(i-1) for i in 1..15.
C8_DiagAllPowersOfTwo ==
    /\ internalLinearLayer[1] = MODULUS - 2
    /\ \A n \in 1 .. 15 : internalLinearLayer[n + 1] = 2 ^ (n - 1)

\* C8 amended: entry 0 is p - 2, entry i is 2^(i-1) for i in 1..14, entry 15
\* is 2^15; the table is the same in every state.
C8_DiagSkipsTwoToThe14 ==
    /\ Len(internalLinearLayer) = BABYBEAR_WIDTH
    /\ internalLinearLayer[1] = MODULUS - 2
    /\ \A n \in 1 .. 14 : internalLinearLayer[n + 1] = 2 ^ (n - 1)
    /\ internalLinearLayer[16] = 2 ^ 15

\* C8 witness: PermuteMut has run on the chip and the table still ends in 2^15.
C8_Witness ==
    /\ pcP = "done"
    /\ rounds # <<>>
    /\ internalLinearLayer[16] = 32768

\* C9: after the 12 iterations felt0 is 144, the AssertEq holds and the
\* circuit stays satisfiable, whatever X and Y are.
C9_FibonacciIs144 ==
    /\ pcD = "asserted" => (i = 12 /\ felt0 = 144 /\ sat)
    /\ pcD = "done" => sat

\* C9 witness: the assertion has been laid down for the witness X = 0, Y = 0.
C9_Witness ==
    /\ call = "TestCircuit"
    /\ pcD = "asserted"
    /\ X = 0
    /\ Y = 0
    /\ felt0 = 144

Holding == {"setWitness", "setConstraints", "testMain", "prove", "unlock"}

\* what TestMain must read for the arguments of invocation t
OwnFileName(t) ==
    IF arg[t].witnessPath = "" THEN "witness.json" ELSE arg[t].witnessPath

C10_Safety ==
    /\ Cardinality({t \in Invocations : pc[t] \in Holding}) <= 1
    /\ \A t \in Invocations :
          /\ pc[t] \in Holding => testMutex = t
          /\ pc[t] \in {"prove", "unlock", "return", "returned"} =>
                fileName[t] = OwnFileName(t)
          /\ pc[t] \in {"return", "returned"} =>
                (testMutex # t /\ err[t] \in {"nil", "error"})

\* C10: at most one invocation is between Lock and Unlock, TestMain reads
\* the WITNESS_JSON its own invocation set, the mutex is released after
\* TestMain whatever it returns, and every waiting invocation gets the lock.
C10_Serialized ==
    /\ []C10_Safety
    /\ \A t \in Invocations : (pc[t] = "lock") ~> (pc[t] = "setWitness")

\* C10 witness: one invocation is inside TestMain, holding the mutex, with
\* its own file name while another, called with a different witness path,
\* waits for the lock.
C10_Witness ==
    \E t, u \in Invocations :
        /\ pc[t] = "prove" /\ testMutex = t /\ fileName[t] = "b.json"
        /\ pc[u] = "lock" /\ arg[u].witnessPath = "a.json"

\* the block [s0,s1,s2,s3] of s that starts at index b (1-based), mapped to
\* [t0123+s1+t01, t0123+s1+2*s2, t0123+s3+t23, t0123+s3+2*s0], every term
\* taken from s itself
RefBlock(s, b) ==
    LET s0 == s[b]
        s1 == s[b + 1]
        s2 == s[b + 2]
        s3 == s[b + 3]
        t01 == AddMod(s0, s1)
        t23 == AddMod(s2, s3)
        t0123 == AddMod(t01, t23)
    IN  <<AddMod(AddMod(t0123, s1), t01),
          AddMod(AddMod(t0123, s1), AddMod(s2, s2)),
          AddMod(AddMod(t0123, s3), t23),
          AddMod(AddMod(t0123, s3), AddMod(s0, s0))>>

\* the four transformed blocks, then to each element the sum of the four
\* transformed elements at its intra-block position
RefExternalLayer(s) ==
    LET m == RefBlock(s, 1) \o RefBlock(s, 5) \o RefBlock(s, 9)
                 \o RefBlock(s, 13)
        col(n) == AddMod(AddMod(m[n], m[n + 4]), AddMod(m[n + 8], m[n + 12]))
    IN  [k \in Width |-> AddMod(m[k], col(((k - 1) % 4) + 1))]

\* the state externalLinearLayer is applied to by the next step of PermuteMut
LayerArgument ==
    IF pcP = "initial" THEN state ELSE sbox(addRc(state, RC16[r]))

\* C11: every application of externalLinearLayer replaces each 4-element
\* block by [t0123+s1+t01, t0123+s1+2*s2, t0123+s3+t23, t0123+s3+2*s0],
\* computed from the block's values before the call, and then adds to every
\* element the sum of the four transformed blocks at its position.
C11_ExternalLayerFormula ==
    [][rounds' # rounds => state' = RefExternalLayer(LayerArgument)]_vars

\* C11 witness: the layer has been applied to a state of 16 distinct
\* elements and has produced the blocks-then-column-sums result.
C11_Witness ==
    /\ call = "PermuteMut"
    /\ pcP = "firstHalf"
    /\ rounds = <<"initial">>
    /\ input = [k \in Width |-> k]
    /\ state = RefExternalLayer(input)
    /\ state # input

====
